---- MODULE Spec2Model ----
(***************************************************************************)
(* Survey bot (src/bot.py): the aiogram finite-state survey, its           *)
(* multi-select widget and the finalizer that appends one row to the       *)
(* sheet and notifies the operators.                                       *)
(*                                                                         *)
(* Text is a sequence of characters, each character a string.  A code      *)
(* point outside ASCII is written "^" followed by its ASCII                *)
(* transliteration: "^O" is CYRILLIC CAPITAL LETTER O, "^o" the small      *)
(* one, "^-" is EN DASH, "^'" is LEFT SINGLE QUOTATION MARK.               *)
(***************************************************************************)
EXTENDS Integers, Sequences, FiniteSets, TLC

(* ------------------------------------------------------------------ *)
(* Bounds of the model                                                  *)
(* ------------------------------------------------------------------ *)

\* How many updates of a behaviour may differ from the answer the current
\* prompt asks for (DefaultUpdate below).
MaxOdd == 2

(* ------------------------------------------------------------------ *)
(* Python str operations used by the handlers                           *)
(* ------------------------------------------------------------------ *)

UpperCase ==
    <<"A","B","C","D","E","F","G","H","I","J","K","L","M","N","O","P","Q","R","S","T","U","V","W","X","Y","Z",
      "^A","^B","^V","^G","^D","^E","^Zh","^Z","^I","^J","^K","^L","^M","^N","^O","^P","^R","^S","^T","^U","^F","^H","^C","^Ch","^Sh","^Sch","^Qq","^Y","^Q","^Eh","^Yu","^Ya","^Yo">>

LowerCase ==
    <<"a","b","c","d","e","f","g","h","i","j","k","l","m","n","o","p","q","r","s","t","u","v","w","x","y","z",
      "^a","^b","^v","^g","^d","^e","^zh","^z","^i","^j","^k","^l","^m","^n","^o","^p","^r","^s","^t","^u","^f","^h","^c","^ch","^sh","^sch","^qq","^y","^q","^eh","^yu","^ya","^yo">>

Digits == {"0","1","2","3","4","5","6","7","8","9"}

Whitespace == {" "}

\* m.text of a message that carries no text (a photo, a shared contact).
None == <<"None">>

lower_ch(ch) ==
    IF \E i \in 1..Len(UpperCase) : UpperCase[i] = ch
    THEN LowerCase[CHOOSE i \in 1..Len(UpperCase) : UpperCase[i] = ch]
    ELSE ch

\* str.lower()
lower(s) == [i \in 1..Len(s) |-> lower_ch(s[i])]

RECURSIVE lstrip(_)
lstrip(s) ==
    IF s # <<>> /\ Head(s) \in Whitespace THEN lstrip(Tail(s)) ELSE s

RECURSIVE rstrip(_)
rstrip(s) ==
    IF s # <<>> /\ s[Len(s)] \in Whitespace
    THEN rstrip(SubSeq(s, 1, Len(s) - 1))
    ELSE s

\* str.strip()
strip(s) == rstrip(lstrip(s))

\* str.isdigit(): non-empty and every character a digit
isdigit(s) == s # <<>> /\ \A i \in 1..Len(s) : s[i] \in Digits

\* str.startswith(p)
startswith(s, p) == Len(s) >= Len(p) /\ SubSeq(s, 1, Len(p)) = p

\* str.replace(" ", "")
remove_spaces(s) == SelectSeq(s, LAMBDA ch : ch # " ")

\* sep.join(parts)
RECURSIVE join(_, _)
join(sep, parts) ==
    IF parts = <<>> THEN <<>>
    ELSE IF Len(parts) = 1 THEN parts[1]
    ELSE parts[1] \o sep \o join(sep, Tail(parts))

(* ------------------------------------------------------------------ *)
(* Texts and options                                                    *)
(* ------------------------------------------------------------------ *)

RU == "ru"
UZ == "uz"

OPTIONS == [
  TEAM_SIZES |-> [
      ru |-> <<
          <<"1","^-","3">>,
          <<"4","^-","1","0">>,
          <<"1","1","^-","3","0">>,
          <<"3","0","+">> >>,
      uz |-> <<
          <<"1","^-","3">>,
          <<"4","^-","1","0">>,
          <<"1","1","^-","3","0">>,
          <<"3","0","+">> >> ],
  LEAD_CHANNELS |-> [
      ru |-> <<
          <<"I","n","s","t","a","g","r","a","m">>,
          <<"T","e","l","e","g","r","a","m">>,
          <<"W","h","a","t","s","A","p","p">>,
          <<"^S","^a","^j","^t">>,
          <<"^Ch","^e","^r","^e","^z"," ","^a","^g","^e","^n","^t","^o","^v">>,
          <<"^D","^r","^u","^g","^o","^e">> >>,
      uz |-> <<
          <<"I","n","s","t","a","g","r","a","m">>,
          <<"T","e","l","e","g","r","a","m">>,
          <<"W","h","a","t","s","A","p","p">>,
          <<"S","a","y","t">>,
          <<"A","g","e","n","t","l","a","r"," ","o","r","q","a","l","i">>,
          <<"B","o","s","h","q","a">> >> ],
  LEADS_PER_WEEK |-> [
      ru |-> <<
          <<"1","^-","1","0">>,
          <<"1","0","^-","5","0">>,
          <<"5","0","^-","1","0","0">>,
          <<"1","0","0","+">> >>,
      uz |-> <<
          <<"1","^-","1","0">>,
          <<"1","0","^-","5","0">>,
          <<"5","0","^-","1","0","0">>,
          <<"1","0","0","+">> >> ],
  CRM_USAGE |-> [
      ru |-> <<
          <<"C","R","M">>,
          <<"E","x","c","e","l">>,
          <<"^T","^o","^l","^q","^k","^o"," ","^m","^e","^s","^s","^e","^n","^d","^zh","^e","^r","^y">>,
          <<"^N","^e","^t"," ","^s","^i","^s","^t","^e","^m","^y">> >>,
      uz |-> <<
          <<"C","R","M">>,
          <<"E","x","c","e","l">>,
          <<"F","a","q","a","t"," ","m","e","s","s","e","n","j","e","r","l","a","r">>,
          <<"T","i","z","i","m"," ","y","o","^'","q">> >> ],
  PAYMENT_METHODS |-> [
      ru |-> <<
          <<"^N","^a","^l","^i","^ch","^n","^y","^e">>,
          <<"^P","^e","^r","^e","^v","^o","^d"," ","^n","^a"," ","^k","^a","^r","^t","^u">>,
          <<"C","l","i","c","k">>,
          <<"P","a","y","m","e">>,
          <<"A","p","e","l","s","i","n">>,
          <<"^Ch","^e","^r","^e","^z"," ","^yu","^r","^l","^i","^c","^o">>,
          <<"^D","^r","^u","^g","^o","^e">> >>,
      uz |-> <<
          <<"N","a","q","d">>,
          <<"K","a","r","t","a","g","a"," ","o","^'","t","k","a","z","m","a">>,
          <<"C","l","i","c","k">>,
          <<"P","a","y","m","e">>,
          <<"A","p","e","l","s","i","n">>,
          <<"Y","u","r","i","d","i","k"," ","s","h","a","x","s"," ","o","r","q","a","l","i">>,
          <<"B","o","s","h","q","a">> >> ],
  ONLINE_BOOKING |-> [
      ru |-> <<
          <<"^E","^s","^t","^q",","," ","^ch","^e","^r","^e","^z"," ","^s","^a","^j","^t">>,
          <<"^T","^o","^l","^q","^k","^o"," ","^v","^r","^u","^ch","^n","^u","^yu">>,
          <<"^Ch","^a","^s","^t","^i","^ch","^n","^o">> >>,
      uz |-> <<
          <<"B","o","r",","," ","s","a","y","t"," ","o","r","q","a","l","i">>,
          <<"F","a","q","a","t"," ","q","o","^'","l","d","a">>,
          <<"Q","i","s","m","a","n">> >> ],
  DOCS_DELIVERY |-> [
      ru |-> <<
          <<"^V","^r","^u","^ch","^n","^u","^yu"," ","^v"," ","^m","^e","^s","^s","^e","^n","^d","^zh","^e","^r","^e">>,
          <<"^Ch","^e","^r","^e","^z"," ","^s","^i","^s","^t","^e","^m","^u","/","C","R","M">>,
          <<"^D","^r","^u","^g","^o","^e">> >>,
      uz |-> <<
          <<"M","e","s","s","e","n","j","e","r","d","a"," ","q","o","^'","l","d","a">>,
          <<"T","i","z","i","m","/","C","R","M"," ","o","r","q","a","l","i">>,
          <<"B","o","s","h","q","a">> >> ],
  AGG_INT |-> [
      ru |-> <<
          <<"^D","^a",","," ","^o","^ch","^e","^n","^q">>,
          <<"^V","^o","^z","^m","^o","^zh","^n","^o">>,
          <<"^N","^e","^t",","," ","^s","^v","^o","^ya"," ","^s","^i","^s","^t","^e","^m","^a">> >>,
      uz |-> <<
          <<"H","a",","," ","j","u","d","a"," ","q","i","z","i","q">>,
          <<"B","a","l","k","i">>,
          <<"Y","o","^'","q",","," ","o","^'","z"," ","t","i","z","i","m","i","m","i","z"," ","b","o","r">> >> ],
  AGG_VALUES |-> [
      ru |-> <<
          <<"^B","^o","^l","^q","^sh","^e"," ","^k","^l","^i","^e","^n","^t","^o","^v">>,
          <<"^U","^p","^r","^a","^v","^l","^e","^n","^i","^e"," ","^t","^u","^r","^a","^m","^i">>,
          <<"^O","^n","^l","^a","^j","^n","-","^o","^p","^l","^a","^t","^a">>,
          <<"^O","^t","^ch","^yo","^t","^y"," ","^i"," ","^a","^n","^a","^l","^i","^t","^i","^k","^a">>,
          <<"^O","^t","^z","^y","^v","^y"," ","^k","^l","^i","^e","^n","^t","^o","^v">> >>,
      uz |-> <<
          <<"K","o","^'","p","r","o","q"," ","m","i","j","o","z","l","a","r">>,
          <<"T","u","r","l","a","r","n","i"," ","b","o","s","h","q","a","r","i","s","h">>,
          <<"O","n","l","a","y","n"," ","t","o","^'","l","o","v">>,
          <<"H","i","s","o","b","o","t"," ","v","a"," ","a","n","a","l","i","t","i","k","a">>,
          <<"M","i","j","o","z","l","a","r"," ","f","i","k","r","l","a","r","i">> >> ],
  MONETIZATION |-> [
      ru |-> <<
          <<"^K","^o","^m","^i","^s","^s","^i","^ya"," ","^z","^a"," ","^z","^a","^ya","^v","^k","^u"," ","(","5","^-","1","0","%",")">>,
          <<"^F","^i","^k","^s","^i","^r","^o","^v","^a","^n","^n","^a","^ya"," ","^p","^o","^d","^p","^i","^s","^k","^a">>,
          <<"^T","^o","^l","^q","^k","^o"," ","^b","^e","^s","^p","^l","^a","^t","^n","^o">> >>,
      uz |-> <<
          <<"A","r","i","z","a"," ","u","c","h","u","n"," ","k","o","m","i","s","s","i","y","a"," ","(","5","^-","1","0","%",")">>,
          <<"F","i","k","s"," ","o","b","u","n","a">>,
          <<"F","a","q","a","t"," ","b","e","p","u","l">> >> ] ]

\* t(key, lang): the localized text, named by its key and language
t(key, lang) == [key |-> key, lang |-> lang]

opts(name, lang) == OPTIONS[name][lang]

\* the labels q_company .. q_ins3 compare m.text.lower() with
CancelLabels ==
    { <<"^o","^t","^m","^e","^n","^i","^t","^q">>,
      <<"b","e","k","o","r"," ","q","i","l","i","s","h">> }

\* t("cancel_btn", lang): the label of the keyboards' cancel button
cancel_btn(lang) ==
    IF lang = RU THEN <<"^O","^t","^m","^e","^n","^i","^t","^q">>
    ELSE <<"B","e","k","o","r"," ","q","i","l","i","s","h">>

(* ------------------------------------------------------------------ *)
(* Configuration and state                                              *)
(* ------------------------------------------------------------------ *)

\* class Survey(StatesGroup), in declaration order
Survey ==
    << "lang", "company", "city", "years", "team", "leads_from", "leads_week",
       "crm", "pay", "booking", "docs", "agg_interest", "agg_values",
       "monetization", "insight1", "insight2", "insight3", "contact" >>

\* the FSM state of a chat that has none (after state.clear())
NoState == "none"

\* the private chats (user ids) that can write to the bot
Chats == {1, 2}

\* ADMINS: the operators told about a new row
ADMINS == <<901, 902>>

\* m.from_user.username: chat 1 has one, chat 2 has none
username(c) == IF c = 1 THEN <<"a","g","_","u","z">> ELSE None

\* the header row written when the worksheet is created
COLUMNS ==
    << "timestamp", "user_id", "username", "lang",
       "company_name", "city", "years_on_market", "team_size",
       "lead_channels", "leads_per_week", "crm_usage",
       "payment_methods", "online_booking", "docs_delivery",
       "interested_in_aggregator", "aggregator_values",
       "monetization_preference",
       "free_insight_1", "free_insight_2", "free_insight_3",
       "contact" >>

VARIABLES
    step,       \* step[c]: the FSM state of chat c (a Survey state or NoState)
    data,       \* data[c]: the FSM data of chat c, a function from keys to values
    sheet,      \* the rows appended to the worksheet, in order
    out,        \* out[c]: the Telegram calls made while handling chat c's last update
    view,       \* view[c]: the inline keyboard last rendered in chat c
    notified,   \* the operator notifications delivered, in order
    ran,        \* ran[c]:  the handler that ran for chat c's last update, and the
                \*          FSM state the update was dispatched in
    odd,        \* how many updates so far were not the default one
    live,       \* the chats that send updates in this behaviour
    pending     \* pending[c]: the q_contact handlers of chat c that appended
                \*             their row and are suspended at the await after it

vars == <<step, data, sheet, out, view, notified, ran, odd, live, pending>>

\* dict: {} , d.get(k, default), d | {k: v}
EmptyData == [k \in {} |-> <<>>]

get(d, k, default) == IF k \in DOMAIN d THEN d[k] ELSE default

put(d, k, v) == [x \in DOMAIN d \cup {k} |-> IF x = k THEN v ELSE d[x]]

\* a lookup that forgets the pick and always answers with the default
get_lang_default(c) == RU

get_lang(c) == get(data[c], "lang", RU)

\* an inline keyboard: "none", "lang" (the two language buttons), "open" (the
\* open-variants button) or a checklist named by its callback prefix, with the
\* option indices rendered as selected
Keyboard(kb, marks) == [kb |-> kb, marks |-> marks]

NoKeyboard == Keyboard("none", {})

\* inline_multi(options, lang, prefix): every option rendered unselected
inline_multi(options, prefix) == Keyboard(prefix, {})

(* ------------------------------------------------------------------ *)
(* Telegram calls of a handler                                          *)
(* ------------------------------------------------------------------ *)

\* One awaited Bot API call: m.answer / cb.message.answer ("answer"),
\* edit_text, edit_reply_markup, cb.answer ("cb_answer"), bot.send_message to
\* an operator ("send_message").
Call(to, op, key, lang) == [to |-> to, op |-> op, key |-> key, lang |-> lang, ok |-> TRUE]

\* u.fail = k > 0: the k-th call of the handler raises; the calls after it are
\* never made.  0 (or k beyond the handler's calls): none raises.
Made(calls, fail) ==
    IF fail \in 1..Len(calls)
    THEN [i \in 1..fail |-> IF i = fail THEN [calls[i] EXCEPT !.ok = FALSE] ELSE calls[i]]
    ELSE calls

\* the handler ran past its k-th call
Past(k, fail) == fail = 0 \/ fail > k

Quiet == << >>

(* ------------------------------------------------------------------ *)
(* Filters and dispatch                                                 *)
(* ------------------------------------------------------------------ *)

\* Command(cmd): the first word of the text is "/" + cmd
IsCommand(text, cmd) ==
    /\ text # None
    /\ LET s == lstrip(text)
           n == Len(cmd) + 1
       IN  /\ startswith(s, <<"/">> \o cmd)
           /\ (Len(s) = n \/ s[n + 1] \in Whitespace)

CmdStart == <<"s","t","a","r","t">>
CmdCancel == <<"c","a","n","c","e","l">>
CmdHelp == <<"h","e","l","p">>

\* F.text.func(lambda v: v in OPTIONS[name][RU] + OPTIONS[name][UZ])
InOptions(text, name) ==
    LET both == OPTIONS[name][RU] \o OPTIONS[name][UZ]
    IN  text # None /\ \E i \in 1..Len(both) : both[i] = text

\* F.data.startswith("<prefix>:toggle:"), the data split at ":"
IsToggle(cbdata, prefix) ==
    Len(cbdata) >= 3 /\ cbdata[1] = prefix /\ cbdata[2] = "toggle"

\* a registration order with the step handlers ahead of the commands
MessageHandlers_StepsFirst ==
    << "q_company", "q_city", "q_years", "q_team",
       "q_leads_week", "q_crm", "q_booking", "q_docs", "q_agg_int", "q_monet",
       "q_ins1", "q_ins2", "q_ins3", "q_contact", "start", "cancel", "help_cmd" >>

\* the handlers in the order the router registered them, per update kind
MessageHandlers ==
    << "start", "cancel", "help_cmd", "q_company", "q_city", "q_years", "q_team",
       "q_leads_week", "q_crm", "q_booking", "q_docs", "q_agg_int", "q_monet",
       "q_ins1", "q_ins2", "q_ins3", "q_contact" >>

CallbackHandlers ==
    << "pick_lang", "leads_open", "leads_done", "leads_toggle",
       "pay_open", "pay_done", "pay_toggle",
       "vals_open", "vals_done", "vals_toggle" >>

\* The filters of a decorator: a command, an FSM state, an option list the
\* text must be in, the callback data accepted, the prefix of a toggle.
\* An absent filter is "" (or the empty set).
OnCommand(cmd) == [command |-> cmd, state |-> "", text_in |-> "", data_in |-> {}, toggle |-> ""]
OnState(st) == [command |-> <<>>, state |-> st, text_in |-> "", data_in |-> {}, toggle |-> ""]
OnText(st, name) == [command |-> <<>>, state |-> st, text_in |-> name, data_in |-> {}, toggle |-> ""]
OnData(st, accepted) == [command |-> <<>>, state |-> st, text_in |-> "", data_in |-> accepted, toggle |-> ""]
OnToggle(st, prefix) == [command |-> <<>>, state |-> st, text_in |-> "", data_in |-> {}, toggle |-> prefix]

\* the decorator of each handler
Filters ==
    [ start        |-> OnCommand(CmdStart),
      cancel       |-> OnCommand(CmdCancel),
      help_cmd     |-> OnCommand(CmdHelp),
      q_company    |-> OnState("company"),
      q_city       |-> OnState("city"),
      q_years      |-> OnState("years"),
      q_team       |-> OnText("team", "TEAM_SIZES"),
      q_leads_week |-> OnText("leads_week", "LEADS_PER_WEEK"),
      q_crm        |-> OnText("crm", "CRM_USAGE"),
      q_booking    |-> OnText("booking", "ONLINE_BOOKING"),
      q_docs       |-> OnText("docs", "DOCS_DELIVERY"),
      q_agg_int    |-> OnText("agg_interest", "AGG_INT"),
      q_monet      |-> OnText("monetization", "MONETIZATION"),
      q_ins1       |-> OnState("insight1"),
      q_ins2       |-> OnState("insight2"),
      q_ins3       |-> OnState("insight3"),
      q_contact    |-> OnState("contact"),
      pick_lang    |-> OnData("lang", {<<"lang", "ru">>, <<"lang", "uz">>}),
      leads_open   |-> OnData("leads_from", {<<"mv", "open">>}),
      leads_done   |-> OnData("leads_from", {<<"lead", "done">>}),
      leads_toggle |-> OnToggle("leads_from", "lead"),
      pay_open     |-> OnData("pay", {<<"pay", "open">>}),
      pay_done     |-> OnData("pay", {<<"paym", "done">>}),
      pay_toggle   |-> OnToggle("pay", "paym"),
      vals_open    |-> OnData("agg_values", {<<"vals", "open">>}),
      vals_done    |-> OnData("agg_values", {<<"vals", "done">>}),
      vals_toggle  |-> OnToggle("agg_values", "vals") ]

\* the filters of handler h pass on update u of a chat in FSM state st
Filter(h, st, u) ==
    /\ Filters[h].command # <<>> => IsCommand(u.text, Filters[h].command)
    /\ Filters[h].state # "" => st = Filters[h].state
    /\ Filters[h].text_in # "" => InOptions(u.text, Filters[h].text_in)
    /\ Filters[h].data_in # {} => u.data \in Filters[h].data_in
    /\ Filters[h].toggle # "" => IsToggle(u.data, Filters[h].toggle)

\* the first handler of hs, from position i on, whose filters pass
RECURSIVE first_match(_, _, _, _)
first_match(hs, i, st, u) ==
    IF i > Len(hs) THEN "unhandled"
    ELSE IF Filter(hs[i], st, u) THEN hs[i]
    ELSE first_match(hs, i + 1, st, u)

\* the handler the dispatcher runs for an update of a chat in FSM state st:
\* the first registered one whose filters pass, or none ("unhandled")
HandlerAt(st, u) ==
    first_match(IF u.kind = "message" THEN MessageHandlers ELSE CallbackHandlers, 1, st, u)

Handler(c, u) == HandlerAt(step[c], u)

(* ------------------------------------------------------------------ *)
(* Handlers                                                             *)
(* ------------------------------------------------------------------ *)

\* a start that sets the state without state.clear()
start_keeps_data(c, u) ==
    /\ out' = [out EXCEPT ![c] = Made(<<Call(c, "answer", "choose_lang", "ru+uz")>>, u.fail)]
    /\ view' = [view EXCEPT ![c] = IF Past(1, u.fail) THEN Keyboard("lang", {}) ELSE @]
    /\ step' = [step EXCEPT ![c] = IF Past(1, u.fail) THEN "lang" ELSE @]
    /\ UNCHANGED <<data, sheet, notified, live>>

\* @rt.message(CommandStart())
start(c, u) ==
    /\ data' = [data EXCEPT ![c] = EmptyData]
    /\ out' = [out EXCEPT ![c] = Made(<<Call(c, "answer", "choose_lang", "ru+uz")>>, u.fail)]
    /\ view' = [view EXCEPT ![c] = IF Past(1, u.fail) THEN Keyboard("lang", {}) ELSE @]
    /\ step' = [step EXCEPT ![c] = IF Past(1, u.fail) THEN "lang" ELSE NoState]
    /\ UNCHANGED <<sheet, notified, live>>

\* the body of cancel(m, state), also called by the free-text handlers
cancel_body(c, u) ==
    /\ data' = [data EXCEPT ![c] = EmptyData]
    /\ step' = [step EXCEPT ![c] = NoState]
    /\ out' = [out EXCEPT ![c] = Made(<<Call(c, "answer", "cancelled", get_lang(c))>>, u.fail)]
    /\ UNCHANGED <<view, sheet, notified, live>>

\* @rt.message(Command("cancel"))
cancel(c, u) ==
    cancel_body(c, u)

\* @rt.message(Command("help"))
help_cmd(c, u) ==
    /\ out' = [out EXCEPT ![c] = Made(<<Call(c, "answer", "help", get_lang(c))>>, u.fail)]
    /\ UNCHANGED <<step, data, view, sheet, notified, live>>

\* @rt.callback_query(Survey.lang, F.data.in_(["lang:ru", "lang:uz"]))
pick_lang(c, u) ==
    /\ LET lang == IF u.data[2] = "ru" THEN RU ELSE UZ
       IN  /\ data' = [data EXCEPT ![c] = put(@, "lang", lang)]
           /\ out' = [out EXCEPT ![c] =
                  Made(<< Call(c, "edit_reply_markup", "", lang),
                          Call(c, "answer", "welcome", lang),
                          Call(c, "cb_answer", "", lang) >>, u.fail)]
    /\ view' = [view EXCEPT ![c] = IF Past(1, u.fail) THEN NoKeyboard ELSE @]
    /\ step' = [step EXCEPT ![c] = IF Past(2, u.fail) THEN "company" ELSE @]
    /\ UNCHANGED <<sheet, notified, live>>

\* a free-text step: q_company, q_city, q_years, q_ins1, q_ins2, q_ins3
free_text(c, u, key, prompt, next) ==
    IF u.text = None \/ u.text = <<>> \/ lower(u.text) \in CancelLabels
    THEN cancel_body(c, u)
    ELSE /\ data' = [data EXCEPT ![c] = put(@, key, strip(u.text))]
         /\ out' = [out EXCEPT ![c] = Made(<<Call(c, "answer", prompt, get_lang(c))>>, u.fail)]
         /\ step' = [step EXCEPT ![c] = IF Past(1, u.fail) THEN next ELSE @]
         /\ UNCHANGED <<view, sheet, notified, live>>

\* @rt.message(Survey.company)
q_company(c, u) ==
    free_text(c, u, "company_name", "q_city", "city")

\* @rt.message(Survey.city)
q_city(c, u) ==
    free_text(c, u, "city", "q_years", "years")

\* a years step that goes past the team step
q_years_skips_team(c, u) ==
    free_text(c, u, "years", "q_leads_from_open", "leads_from")

\* @rt.message(Survey.years)
q_years(c, u) ==
    free_text(c, u, "years", "q_team", "team")

\* a single-choice step followed by another message prompt:
\* q_leads_week, q_booking, q_docs, q_monet
single_choice(c, u, key, prompt, next) ==
    /\ data' = [data EXCEPT ![c] = put(@, key, u.text)]
    /\ out' = [out EXCEPT ![c] = Made(<<Call(c, "answer", prompt, get_lang(c))>>, u.fail)]
    /\ step' = [step EXCEPT ![c] = IF Past(1, u.fail) THEN next ELSE @]
    /\ UNCHANGED <<view, sheet, notified, live>>

\* a single-choice step followed by a multi-select: q_team, q_crm, q_agg_int
\* (the prompt carries the inline "open variants" button)
single_choice_open(c, u, key, prompt, next) ==
    /\ data' = [data EXCEPT ![c] = put(@, key, u.text)]
    /\ out' = [out EXCEPT ![c] = Made(<<Call(c, "answer", prompt, get_lang(c))>>, u.fail)]
    /\ view' = [view EXCEPT ![c] = IF Past(1, u.fail) THEN Keyboard("open", {}) ELSE @]
    /\ step' = [step EXCEPT ![c] = IF Past(1, u.fail) THEN next ELSE @]
    /\ UNCHANGED <<sheet, notified, live>>

\* @rt.message(Survey.team, F.text.func(...TEAM_SIZES...))
q_team(c, u) ==
    single_choice_open(c, u, "team_size", "q_leads_from_open", "leads_from")

\* the first edit of a multi-select: leads_open, pay_open, vals_open
open_multi(c, u, prompt, name, prefix) ==
    /\ out' = [out EXCEPT ![c] =
           Made(<< Call(c, "edit_text", prompt, get_lang(c)),
                   Call(c, "cb_answer", "", get_lang(c)) >>, u.fail)]
    /\ view' = [view EXCEPT ![c] =
           IF Past(1, u.fail) THEN inline_multi(opts(name, get_lang(c)), prefix) ELSE @]
    /\ UNCHANGED <<step, data, sheet, notified, live>>

\* @rt.callback_query(Survey.leads_from, F.data == "mv:open")
leads_open(c, u) ==
    open_multi(c, u, "q_leads_from_tap", "LEAD_CHANNELS", "lead")

\* list.remove(x): drop the first occurrence
RECURSIVE remove(_, _)
remove(s, x) ==
    IF s = <<>> THEN s
    ELSE IF Head(s) = x THEN Tail(s)
    ELSE <<Head(s)>> \o remove(Tail(s), x)

contains(s, x) == \E i \in 1..Len(s) : s[i] = x

\* a toggle that only ever adds
toggled_appends(picked, idx) == Append(picked, idx)

\* the "toggle" branch of toggle_multi: picked after the event
toggled(picked, idx) ==
    IF contains(picked, idx) THEN remove(picked, idx) ELSE Append(picked, idx)

\* the rows toggle_multi renders: option i is marked iff i in picked
rendered(options, picked, prefix) ==
    Keyboard(prefix, {i \in 0..(Len(options) - 1) : contains(picked, i)})

\* a toggle that keeps one selection for all chats
toggle_multi_shared(c, u, key, name, prefix) ==
    LET picked == toggled(get(data[c], key, <<>>), u.data[3])
    IN  /\ data' = [o \in Chats |-> put(data[o], key, picked)]
        /\ out' = [out EXCEPT ![c] =
               Made(<< Call(c, "edit_reply_markup", "", get_lang(c)),
                       Call(c, "cb_answer", "", get_lang(c)) >>, u.fail)]
        /\ view' = [view EXCEPT ![c] =
               IF Past(1, u.fail)
               THEN rendered(opts(name, get_lang(c)), picked, prefix) ELSE @]
        /\ UNCHANGED <<step, sheet, notified, live>>

\* toggle_multi(cb, state, key, options, prefix), reached with "<prefix>:toggle:<idx>"
toggle_multi(c, u, key, name, prefix) ==
    LET picked == toggled(get(data[c], key, <<>>), u.data[3])
    IN  /\ data' = [data EXCEPT ![c] = put(@, key, picked)]
        /\ out' = [out EXCEPT ![c] =
               Made(<< Call(c, "edit_reply_markup", "", get_lang(c)),
                       Call(c, "cb_answer", "", get_lang(c)) >>, u.fail)]
        /\ view' = [view EXCEPT ![c] =
               IF Past(1, u.fail)
               THEN rendered(opts(name, get_lang(c)), picked, prefix) ELSE @]
        /\ UNCHANGED <<step, sheet, notified, live>>

\* a done that advances only when the keyboard shows a marked option
done_multi_when_marked(c, u, prompt, next) ==
    /\ out' = [out EXCEPT ![c] =
           Made(<< Call(c, "edit_reply_markup", "", get_lang(c)),
                   Call(c, "answer", prompt, get_lang(c)),
                   Call(c, "cb_answer", "", get_lang(c)) >>, u.fail)]
    /\ view' = [view EXCEPT ![c] = IF Past(1, u.fail) THEN NoKeyboard ELSE @]
    /\ step' = [step EXCEPT ![c] =
           IF Past(2, u.fail) /\ view[c].marks # {} THEN next ELSE @]
    /\ UNCHANGED <<data, sheet, notified, live>>

\* a done that confirms the choice in a message of its own before the prompt
done_multi_confirms(c, u, prompt, next) ==
    /\ out' = [out EXCEPT ![c] =
           Made(<< Call(c, "edit_reply_markup", "", get_lang(c)),
                   Call(c, "answer", "saved_choice", get_lang(c)),
                   Call(c, "answer", prompt, get_lang(c)),
                   Call(c, "cb_answer", "", get_lang(c)) >>, u.fail)]
    /\ view' = [view EXCEPT ![c] = IF Past(1, u.fail) THEN NoKeyboard ELSE @]
    /\ step' = [step EXCEPT ![c] = IF Past(3, u.fail) THEN next ELSE @]
    /\ UNCHANGED <<data, sheet, notified, live>>

\* the end of a multi-select: leads_done, pay_done, vals_done
done_multi(c, u, prompt, next) ==
    /\ out' = [out EXCEPT ![c] =
           Made(<< Call(c, "edit_reply_markup", "", get_lang(c)),
                   Call(c, "answer", prompt, get_lang(c)),
                   Call(c, "cb_answer", "", get_lang(c)) >>, u.fail)]
    /\ view' = [view EXCEPT ![c] = IF Past(1, u.fail) THEN NoKeyboard ELSE @]
    /\ step' = [step EXCEPT ![c] = IF Past(2, u.fail) THEN next ELSE @]
    /\ UNCHANGED <<data, sheet, notified, live>>

\* @rt.callback_query(Survey.leads_from, F.data == "lead:done")
leads_done(c, u) ==
    done_multi(c, u, "q_leads_week", "leads_week")

\* @rt.callback_query(Survey.leads_from, F.data.startswith("lead:toggle:"))
leads_toggle(c, u) ==
    toggle_multi(c, u, "leads_from_idx", "LEAD_CHANNELS", "lead")

\* @rt.message(Survey.leads_week, F.text.func(...LEADS_PER_WEEK...))
q_leads_week(c, u) ==
    single_choice(c, u, "leads_per_week", "q_crm", "crm")

\* @rt.message(Survey.crm, F.text.func(...CRM_USAGE...))
q_crm(c, u) ==
    single_choice_open(c, u, "crm_usage", "q_pay_open", "pay")

\* @rt.callback_query(Survey.pay, F.data == "pay:open")
pay_open(c, u) ==
    open_multi(c, u, "q_pay_open", "PAYMENT_METHODS", "paym")

\* @rt.callback_query(Survey.pay, F.data == "paym:done")
pay_done(c, u) ==
    done_multi(c, u, "q_booking", "booking")

\* @rt.callback_query(Survey.pay, F.data.startswith("paym:toggle:"))
pay_toggle(c, u) ==
    toggle_multi(c, u, "pay_idx", "PAYMENT_METHODS", "paym")

\* q_booking storing its answer under the key of the next question
q_booking_as_docs(c, u) ==
    single_choice(c, u, "docs_delivery", "q_docs", "docs")

\* @rt.message(Survey.booking, F.text.func(...ONLINE_BOOKING...))
q_booking(c, u) ==
    single_choice(c, u, "online_booking", "q_docs", "docs")

\* @rt.message(Survey.docs, F.text.func(...DOCS_DELIVERY...))
q_docs(c, u) ==
    single_choice(c, u, "docs_delivery", "q_agg_int", "agg_interest")

\* @rt.message(Survey.agg_interest, F.text.func(...AGG_INT...))
q_agg_int(c, u) ==
    single_choice_open(c, u, "agg_interest", "q_vals_open", "agg_values")

\* @rt.callback_query(Survey.agg_values, F.data == "vals:open")
vals_open(c, u) ==
    open_multi(c, u, "q_vals_open", "AGG_VALUES", "vals")

\* @rt.callback_query(Survey.agg_values, F.data == "vals:done")
vals_done(c, u) ==
    done_multi(c, u, "q_monet", "monetization")

\* @rt.callback_query(Survey.agg_values, F.data.startswith("vals:toggle:"))
vals_toggle(c, u) ==
    toggle_multi(c, u, "vals_idx", "AGG_VALUES", "vals")

\* @rt.message(Survey.monetization, F.text.func(...MONETIZATION...))
q_monet(c, u) ==
    single_choice(c, u, "monetization", "q_ins1", "insight1")

\* @rt.message(Survey.insight1)
q_ins1(c, u) ==
    free_text(c, u, "free_insight_1", "q_ins2", "insight2")

\* @rt.message(Survey.insight2)
q_ins2(c, u) ==
    free_text(c, u, "free_insight_2", "q_ins3", "insight3")

\* @rt.message(Survey.insight3)
q_ins3(c, u) ==
    free_text(c, u, "free_insight_3", "q_contact", "contact")

(* ------------------------------------------------------------------ *)
(* Finalizer                                                            *)
(* ------------------------------------------------------------------ *)

\* normalize_contact(txt)
normalize_contact(txt) ==
    LET s == strip(txt)
        digits == SelectSeq(s, LAMBDA ch : ch \in Digits \/ ch = "+")
    IN  IF startswith(s, <<"+">>) /\ isdigit(remove_spaces(Tail(s))) THEN s
        ELSE IF startswith(s, <<"@">>) /\ Len(s) > 1 THEN s
        ELSE IF digits # <<>> THEN digits
        ELSE s

\* sorted(set(idxs))
RECURSIVE sorted(_)
sorted(S) ==
    IF S = {} THEN <<>>
    ELSE LET lo == CHOOSE x \in S : \A y \in S : x <= y
         IN  <<lo>> \o sorted(S \ {lo})

elements(s) == {s[i] : i \in 1..Len(s)}

\* options[i] of a Python list: defined for -len <= i < len
subscriptable(options, i) == -Len(options) <= i /\ i < Len(options)

subscript(options, i) == IF i >= 0 THEN options[i + 1] ELSE options[Len(options) + i + 1]

\* map_multi(key_idx, options) raises IndexError
map_multi_raises(d, key_idx, options) ==
    \E i \in elements(get(d, key_idx, <<>>)) : ~subscriptable(options, i)

\* a map_multi that resolves the indices in the order they were stored
map_multi_stored_order(d, key_idx, options) ==
    LET idxs == get(d, key_idx, <<>>)
    IN  IF idxs = <<>> THEN <<>>
        ELSE join(<<",", " ">>, [k \in 1..Len(idxs) |-> subscript(options, idxs[k])])

\* map_multi(key_idx, options), over the data read after the contact update
map_multi(d, key_idx, options) ==
    LET idxs == get(d, key_idx, <<>>)
        order == sorted(elements(idxs))
    IN  IF idxs = <<>> THEN <<>>
        ELSE join(<<",", " ">>, [k \in 1..Len(order) |-> subscript(options, order[k])])

\* str(user.id): the decimal digits
RECURSIVE str(_)
str(n) ==
    LET d == <<"0","1","2","3","4","5","6","7","8","9">>[(n % 10) + 1]
    IN  IF n < 10 THEN <<d>> ELSE str(n \div 10) \o <<d>>

\* now_ts(): the wall clock, one fixed reading
now_ts == <<"2","0","2","5","-","0","1","-","0","1"," ","0","0",":","0","0",":","0","0">>

\* the characters of a language code, as the sheet stores it
lang_text(lang) == IF lang = RU THEN <<"r", "u">> ELSE <<"u", "z">>

\* the row q_contact builds from the data of chat c
row(c, d, lang) ==
    << now_ts,
       str(c),
       IF username(c) = None THEN <<>> ELSE username(c),
       lang_text(lang),
       get(d, "company_name", <<>>),
       get(d, "city", <<>>),
       get(d, "years", <<>>),
       get(d, "team_size", <<>>),
       map_multi(d, "leads_from_idx", opts("LEAD_CHANNELS", lang)),
       get(d, "leads_per_week", <<>>),
       get(d, "crm_usage", <<>>),
       map_multi(d, "pay_idx", opts("PAYMENT_METHODS", lang)),
       get(d, "online_booking", <<>>),
       get(d, "docs_delivery", <<>>),
       get(d, "agg_interest", <<>>),
       map_multi(d, "vals_idx", opts("AGG_VALUES", lang)),
       get(d, "monetization", <<>>),
       get(d, "free_insight_1", <<>>),
       get(d, "free_insight_2", <<>>),
       get(d, "free_insight_3", <<>>),
       get(d, "contact", <<>>) >>

row_raises(d, lang) ==
    \/ map_multi_raises(d, "leads_from_idx", opts("LEAD_CHANNELS", lang))
    \/ map_multi_raises(d, "pay_idx", opts("PAYMENT_METHODS", lang))
    \/ map_multi_raises(d, "vals_idx", opts("AGG_VALUES", lang))

\* an operator loop without the try/except: it ends at the first failure
notify_admins_stops(c, lang, admin_ok) ==
    LET calls == [i \in 1..Len(ADMINS) |->
                    [Call(ADMINS[i], "send_message", "summary", lang)
                        EXCEPT !.ok = ADMINS[i] \in admin_ok]]
        failed == {i \in 1..Len(ADMINS) : ~calls[i].ok}
    IN  IF failed = {} THEN calls
        ELSE SubSeq(calls, 1, CHOOSE i \in failed : \A j \in failed : i <= j)

\* the operator loop: every admin is sent the summary, a failure is swallowed
notify_admins(c, lang, admin_ok) ==
    [i \in 1..Len(ADMINS) |->
        [Call(ADMINS[i], "send_message", "summary", lang) EXCEPT !.ok = ADMINS[i] \in admin_ok]]

delivered(c, admin_ok) ==
    LET hit == SelectSeq(ADMINS, LAMBDA a : a \in admin_ok)
    IN  [i \in 1..Len(hit) |-> <<hit[i], c>>]

\* a q_contact that tells the operators before it builds the row
row_failed_notifies(c, u, d, lang) ==
    /\ data' = [data EXCEPT ![c] = d]
    /\ notified' = notified \o delivered(c, u.admin_ok)
    /\ out' = [out EXCEPT ![c] = notify_admins(c, lang, u.admin_ok)]
    /\ UNCHANGED <<step, sheet>>

\* map_multi raised IndexError while the row was built: the handler ends
\* after the contact was stored
row_failed(c, u, d, lang) ==
    /\ data' = [data EXCEPT ![c] = d]
    /\ out' = [out EXCEPT ![c] = Quiet]
    /\ UNCHANGED <<step, sheet, notified>>

\* an except branch that gives the session up
append_failed_clears(c, u, d, lang) ==
    /\ data' = [data EXCEPT ![c] = EmptyData]
    /\ out' = [out EXCEPT ![c] = Made(<<Call(c, "answer", "warn", lang)>>, u.fail)]
    /\ step' = [step EXCEPT ![c] = NoState]
    /\ UNCHANGED <<sheet, notified>>

\* except Exception: ws.append_row raised; warn the user and return
append_failed(c, u, d, lang) ==
    /\ data' = [data EXCEPT ![c] = d]
    /\ out' = [out EXCEPT ![c] = Made(<<Call(c, "answer", "warn", lang)>>, u.fail)]
    /\ UNCHANGED <<step, sheet, notified>>

\* ws.append_row returned: tell the operators, thank the user, clear
appended(c, u, d, lang) ==
    /\ sheet' = Append(sheet, row(c, d, lang))
    /\ notified' = notified \o delivered(c, u.admin_ok)
    /\ out' = [out EXCEPT ![c] =
           notify_admins(c, lang, u.admin_ok)
           \o Made(<<Call(c, "answer", "thanks", lang)>>, u.fail)]
    /\ data' = [data EXCEPT ![c] = IF Past(1, u.fail) THEN EmptyData ELSE d]
    /\ step' = [step EXCEPT ![c] = IF Past(1, u.fail) THEN NoState ELSE @]

\* @rt.message(Survey.contact)
\* u.append_ok: ws.append_row returns; u.admin_ok: the operators whose
\* send_message returns; u.fail = 1: the m.answer to the user raises
q_contact(c, u) ==
    /\ LET lang == get_lang(c)
           contact == normalize_contact(IF u.text = None THEN <<>> ELSE u.text)
           d == put(data[c], "contact", contact)
       IN  IF row_raises(d, lang) THEN row_failed(c, u, d, lang)
           ELSE IF ~u.append_ok THEN append_failed(c, u, d, lang)
           ELSE appended(c, u, d, lang)
    /\ UNCHANGED <<view, live>>

\* an update no handler's filters accept: the dispatcher drops it
unhandled(c, u) ==
    /\ out' = [out EXCEPT ![c] = Quiet]
    /\ UNCHANGED <<step, data, view, sheet, notified, live>>

(* ------------------------------------------------------------------ *)
(* Environment: the updates Telegram delivers                           *)
(* ------------------------------------------------------------------ *)

AdminSet == elements(ADMINS)

\* the option list of each single-choice step
ChoiceList ==
    [ team |-> "TEAM_SIZES", leads_week |-> "LEADS_PER_WEEK", crm |-> "CRM_USAGE",
      booking |-> "ONLINE_BOOKING", docs |-> "DOCS_DELIVERY",
      agg_interest |-> "AGG_INT", monetization |-> "MONETIZATION" ]

\* the callback data, the option list and the toggle handler of each
\* multi-select step
MultiSelect ==
    [ leads_from |-> [open |-> <<"mv", "open">>, done |-> <<"lead", "done">>,
                      prefix |-> "lead", key |-> "leads_from_idx", list |-> "LEAD_CHANNELS",
                      toggle |-> "leads_toggle"],
      pay        |-> [open |-> <<"pay", "open">>, done |-> <<"paym", "done">>,
                      prefix |-> "paym", key |-> "pay_idx", list |-> "PAYMENT_METHODS",
                      toggle |-> "pay_toggle"],
      agg_values |-> [open |-> <<"vals", "open">>, done |-> <<"vals", "done">>,
                      prefix |-> "vals", key |-> "vals_idx", list |-> "AGG_VALUES",
                      toggle |-> "vals_toggle"] ]

FreeTextSteps == {"company", "city", "years", "insight1", "insight2", "insight3"}

last(s) == s[Len(s)]

\* the option indices a toggle event may carry: two positions every list has
\* and one beyond the longest list
ToggleIdx == {0, 2, 7}

TextStart == <<"/", "s", "t", "a", "r", "t">>
TextCancel == <<"/", "c", "a", "n", "c", "e", "l">>
TextHelp == <<"/", "h", "e", "l", "p">>
TextBlank == <<" ">>
TextWord == <<" ", "a", " ">>
TextPhone == <<"+", "9", "9", "8", " ", "9", "0">>
TextHandle == <<"@", "a", "g">>

\* the texts a user may send in the current step
Texts(c) ==
    { None, TextStart, TextCancel, TextHelp, TextBlank, TextWord,
      cancel_btn(RU), cancel_btn(UZ) }
    \cup (IF step[c] \in DOMAIN ChoiceList
          THEN LET name == ChoiceList[step[c]]
               IN  {last(opts(name, RU)), last(opts(name, UZ)), opts(name, RU)[1]}
          ELSE {})
    \cup (IF step[c] = "contact" THEN {TextPhone, TextHandle} ELSE {})

CallbackData ==
    { <<"lang", "ru">>, <<"lang", "uz">>, <<"mv", "open">>, <<"lead", "done">>,
      <<"pay", "open">>, <<"paym", "done">>, <<"vals", "open">>, <<"vals", "done">> }
    \cup { <<p, "toggle", i>> : p \in {"lead", "paym", "vals"}, i \in ToggleIdx }

Message(text) ==
    [ kind |-> "message", text |-> text, data |-> << >>, fail |-> 0,
      append_ok |-> TRUE, admin_ok |-> AdminSet ]

Callback(cbdata) ==
    [ kind |-> "callback_query", text |-> None, data |-> cbdata, fail |-> 0,
      append_ok |-> TRUE, admin_ok |-> AdminSet ]

\* the updates the current prompt asks for, delivered and answered without a
\* failure: /start in a fresh chat, a language button, a word at a free-text
\* step, the last label of the session's language at a single-choice step,
\* "open" then "done" at a multi-select, a phone number at the contact step
DefaultUpdates(c) ==
    LET s == step[c]
    IN  CASE s = NoState -> IF out[c] = Quiet THEN {Message(TextStart)} ELSE {}
          [] s = "lang" -> {Callback(<<"lang", "ru">>), Callback(<<"lang", "uz">>)}
          [] s \in FreeTextSteps -> {Message(TextWord)}
          [] s \in DOMAIN ChoiceList -> {Message(last(opts(ChoiceList[s], get_lang(c))))}
          [] s \in DOMAIN MultiSelect ->
                {Callback(IF view[c].kb = MultiSelect[s].prefix
                          THEN MultiSelect[s].done ELSE MultiSelect[s].open)}
          [] s = "contact" -> {Message(TextPhone)}

(* ------------------------------------------------------------------ *)
(* Specification                                                        *)
(* ------------------------------------------------------------------ *)

Init ==
    /\ step = [c \in Chats |-> NoState]
    /\ data = [c \in Chats |-> EmptyData]
    /\ sheet = << >>
    /\ out = [c \in Chats |-> Quiet]
    /\ view = [c \in Chats |-> NoKeyboard]
    /\ notified = << >>
    /\ ran = [c \in Chats |-> [handler |-> "", from |-> NoState]]
    /\ odd = 0
    /\ live = {1}
    /\ pending = [c \in Chats |-> << >>]

\* feed_webhook_update: the dispatcher runs handler h, the one whose filters
\* accept the update
Deliver(h, c, u) ==
    \/ h = "start" /\ start(c, u)
    \/ h = "cancel" /\ cancel(c, u)
    \/ h = "help_cmd" /\ help_cmd(c, u)
    \/ h = "pick_lang" /\ pick_lang(c, u)
    \/ h = "q_company" /\ q_company(c, u)
    \/ h = "q_city" /\ q_city(c, u)
    \/ h = "q_years" /\ q_years(c, u)
    \/ h = "q_team" /\ q_team(c, u)
    \/ h = "leads_open" /\ leads_open(c, u)
    \/ h = "leads_done" /\ leads_done(c, u)
    \/ h = "leads_toggle" /\ leads_toggle(c, u)
    \/ h = "q_leads_week" /\ q_leads_week(c, u)
    \/ h = "q_crm" /\ q_crm(c, u)
    \/ h = "pay_open" /\ pay_open(c, u)
    \/ h = "pay_done" /\ pay_done(c, u)
    \/ h = "pay_toggle" /\ pay_toggle(c, u)
    \/ h = "q_booking" /\ q_booking(c, u)
    \/ h = "q_docs" /\ q_docs(c, u)
    \/ h = "q_agg_int" /\ q_agg_int(c, u)
    \/ h = "vals_open" /\ vals_open(c, u)
    \/ h = "vals_done" /\ vals_done(c, u)
    \/ h = "vals_toggle" /\ vals_toggle(c, u)
    \/ h = "q_monet" /\ q_monet(c, u)
    \/ h = "q_ins1" /\ q_ins1(c, u)
    \/ h = "q_ins2" /\ q_ins2(c, u)
    \/ h = "q_ins3" /\ q_ins3(c, u)
    \/ h = "q_contact" /\ q_contact(c, u)
    \/ h = "unhandled" /\ unhandled(c, u)

\* how many Telegram calls outside a try/except each handler awaits
Calls ==
    [ start |-> 1, cancel |-> 1, help_cmd |-> 1, pick_lang |-> 3,
      q_company |-> 1, q_city |-> 1, q_years |-> 1, q_team |-> 1,
      leads_open |-> 2, leads_done |-> 3, leads_toggle |-> 2,
      q_leads_week |-> 1, q_crm |-> 1,
      pay_open |-> 2, pay_done |-> 3, pay_toggle |-> 2,
      q_booking |-> 1, q_docs |-> 1, q_agg_int |-> 1,
      vals_open |-> 2, vals_done |-> 3, vals_toggle |-> 2,
      q_monet |-> 1, q_ins1 |-> 1, q_ins2 |-> 1, q_ins3 |-> 1,
      q_contact |-> 1, unhandled |-> 0 ]

\* update u arrives for chat c and handler h takes it; odd counts the updates
\* that are not a default one
Take(h, c, u) ==
    /\ odd' = IF u \in DefaultUpdates(c) THEN odd ELSE odd + 1
    /\ ran' = [ran EXCEPT ![c] = [handler |-> h, from |-> step[c]]]
    /\ Deliver(h, c, u)
    /\ UNCHANGED pending

\* update u arrives for chat c and is handled
Arrive(c, u) == \E h \in {Handler(c, u)} : Take(h, c, u)

\* The updates that may arrive for chat c: a default one at any time, and,
\* while fewer than MaxOdd odd updates have arrived, any message of Texts(c)
\* whose answer may fail, any callback any one of whose calls may fail (none,
\* or one of the Calls of its handler), and at the contact step an append
\* that fails or operators that cannot be reached (one thing at a time goes
\* wrong).
Next ==
    \E c \in live :
        \/ \E u \in DefaultUpdates(c) : Arrive(c, u)
        \/ /\ odd < MaxOdd
           /\ \E text \in Texts(c) : \E h \in {Handler(c, Message(text))} :
                 \E f \in 0..Calls[h] : Take(h, c, [Message(text) EXCEPT !.fail = f])
        \/ /\ odd < MaxOdd
           /\ \E cbdata \in CallbackData : \E h \in {Handler(c, Callback(cbdata))} :
                 \E f \in 0..Calls[h] : Take(h, c, [Callback(cbdata) EXCEPT !.fail = f])
        \/ /\ odd < MaxOdd
           /\ step[c] = "contact"
           /\ \E h \in {Handler(c, Message(TextPhone))} :
                 \/ Take(h, c, [Message(TextPhone) EXCEPT !.append_ok = FALSE])
                 \/ \E A \in SUBSET AdminSet :
                       Take(h, c, [Message(TextPhone) EXCEPT !.admin_ok = A])

Spec == Init /\ [][Next]_vars

(* ------------------------------------------------------------------ *)
(* A valid run                                                          *)
(* ------------------------------------------------------------------ *)

\* the updates of a user who answers every prompt as asked, none of whose
\* replies fails to be sent: the default ones, the first label of the
\* session's language, in-range toggles on an opened multi-select, a handle as
\* the contact, and operators that cannot be reached
ValidUpdates(c) ==
    LET s == step[c]
    IN  DefaultUpdates(c)
        \cup (IF s \in DOMAIN ChoiceList
              THEN {Message(opts(ChoiceList[s], get_lang(c))[1])} ELSE {})
        \cup (IF s \in DOMAIN MultiSelect /\ view[c].kb = MultiSelect[s].prefix
              THEN {Callback(<<MultiSelect[s].prefix, "toggle", i>>) : i \in {0, 2}}
              ELSE {})
        \cup (IF s = "contact"
              THEN {Message(TextHandle)}
                   \cup {[Message(TextPhone) EXCEPT !.admin_ok = A] : A \in SUBSET AdminSet}
              ELSE {})

NextValid ==
    \E c \in live : \E u \in ValidUpdates(c) :
        /\ u \in DefaultUpdates(c) \/ odd < MaxOdd
        /\ Arrive(c, u)

\* the user keeps answering: the next valid update eventually arrives
SpecValid == Init /\ [][NextValid]_vars /\ WF_vars(NextValid)

(* ------------------------------------------------------------------ *)
(* C1                                                                   *)
(* ------------------------------------------------------------------ *)

\* the contact handler ran to its end for chat 1
Finished == ran[1].handler = "q_contact" /\ step[1] = NoState

\* the columns of a free-text or single-choice answer, and of the timestamp,
\* the user id and the language
AnswerColumns ==
    {i \in 1..Len(COLUMNS) :
        COLUMNS[i] \notin {"username", "lead_channels", "payment_methods", "aggregator_values"}}

\* C1: a run of valid updates from a fresh session (a language, a non-empty
\* text at every free-text step, a label of the session's language at every
\* single-choice step, in-range toggles then done at every multi-select, a
\* contact whose append succeeds) reaches the cleared state, and when it has,
\* exactly one record has been appended, of one field per column, with every
\* free-text and single-choice answer in it non-empty; no second record is
\* ever appended.
C1_ValidRunPersistsOneRecord ==
    /\ [](Len(sheet) <= 1)
    /\ [](Finished =>
            /\ Len(sheet) = 1
            /\ data[1] = EmptyData
            /\ Len(sheet[1]) = Len(COLUMNS)
            /\ \A i \in AnswerColumns : sheet[1][i] # <<>>)
    /\ <>Finished

\* a finished valid run in Uzbek whose record shows a toggled lead channel
C1_Witness ==
    /\ Finished
    /\ Len(sheet) = 1
    /\ sheet[1][4] = lang_text(UZ)
    /\ sheet[1][9] # <<>>

(* ------------------------------------------------------------------ *)
(* C2                                                                   *)
(* ------------------------------------------------------------------ *)

\* the FSM data key whose value each answer column of a record carries
AnswerKey ==
    [ company_name |-> "company_name", city |-> "city", years_on_market |-> "years",
      team_size |-> "team_size", leads_per_week |-> "leads_per_week",
      crm_usage |-> "crm_usage", online_booking |-> "online_booking",
      docs_delivery |-> "docs_delivery", interested_in_aggregator |-> "agg_interest",
      monetization_preference |-> "monetization",
      free_insight_1 |-> "free_insight_1", free_insight_2 |-> "free_insight_2",
      free_insight_3 |-> "free_insight_3" ]

\* the session of chat c holds after the step every answer it held before
AnswersKept(c) ==
    /\ DOMAIN data'[c] = DOMAIN data[c] \cup {"contact"}
    /\ \A k \in DOMAIN data[c] \ {"contact"} : data'[c][k] = data[c][k]

\* the step appended one record, whose answer columns are the answers the
\* session of chat c held before it and whose contact is the message's
OneRecordFrom(c, contact) ==
    /\ Len(sheet') = Len(sheet) + 1
    /\ SubSeq(sheet', 1, Len(sheet)) = sheet
    /\ LET r == sheet'[Len(sheet')]
       IN  /\ r[21] = contact
           /\ \A i \in 1..Len(COLUMNS) :
                 COLUMNS[i] \in DOMAIN AnswerKey =>
                    r[i] = get(data[c], AnswerKey[COLUMNS[i]], <<>>)

\* C2: a contact message whose append fails leaves the sheet and the
\* operators untouched, makes one call, the warning to the user, and leaves the
\* session at the contact step with every earlier answer; a contact message
\* at the contact step whose append succeeds (so the same message sent again)
\* appends exactly one record, built from the answers the session held.
C2_AppendFailureKeepsSession ==
    [][\A c \in Chats : \A txt \in {TextPhone, TextHandle} : \A ok \in BOOLEAN :
          LET u == [Message(txt) EXCEPT !.append_ok = ok]
          IN  (step[c] = "contact" /\ ~row_raises(data[c], get_lang(c)) /\ Arrive(c, u)) =>
                 IF ok
                 THEN OneRecordFrom(c, normalize_contact(txt))
                 ELSE /\ sheet' = sheet
                      /\ notified' = notified
                      /\ step'[c] = "contact"
                      /\ out'[c] = <<Call(c, "answer", "warn", get_lang(c))>>
                      /\ AnswersKept(c)]_vars

\* the append failed: the user was warned, nothing is in the sheet and the
\* session is still at the contact step with its answers
C2_Witness ==
    /\ ran[1] = [handler |-> "q_contact", from |-> "contact"]
    /\ step[1] = "contact"
    /\ out[1] = <<Call(1, "answer", "warn", get_lang(1))>>
    /\ sheet = << >>
    /\ \A k \in {"company_name", "monetization", "free_insight_3", "contact"} :
          k \in DOMAIN data[1]

(* ------------------------------------------------------------------ *)
(* C3                                                                   *)
(* ------------------------------------------------------------------ *)

\* C3 (as claimed): whenever a record of chat c is appended, the same step
\* clears the session of chat c and makes the thank-you call, whether or not
\* the operator notifications or the thank-you itself are delivered.
C3_AppendSuccessClearsSession ==
    [][\A c \in Chats :
          (Len(sheet') = Len(sheet) + 1 /\ sheet'[Len(sheet')][2] = str(c)) =>
             /\ step'[c] = NoState
             /\ data'[c] = EmptyData
             /\ \E i \in 1..Len(out'[c]) :
                   out'[c][i].op = "answer" /\ out'[c][i].key = "thanks"]_vars

(* ------------------------------------------------------------------ *)
(* C4, C5, C6                                                           *)
(* ------------------------------------------------------------------ *)

\* the key of the prompt that asked for the answer of each text step
Prompt ==
    [ company |-> "welcome", city |-> "q_city", years |-> "q_years",
      team |-> "q_team", leads_week |-> "q_leads_week", crm |-> "q_crm",
      booking |-> "q_booking", docs |-> "q_docs", agg_interest |-> "q_agg_int",
      monetization |-> "q_monet", insight1 |-> "q_ins1", insight2 |-> "q_ins2",
      insight3 |-> "q_ins3" ]

\* the update left the session of chat c as it was and sent the prompt of the
\* current step again
Reprompted(c) ==
    /\ step'[c] = step[c]
    /\ data'[c] = data[c]
    /\ out'[c] = <<Call(c, "answer", Prompt[step[c]], get_lang(c))>>

\* C4 (as claimed): at a single-choice step a text that is no option label
\* (a word, a blank) leaves the state and the answers unchanged and the
\* prompt of the step is sent again.
C4_InvalidChoiceReprompts ==
    [][\A c \in Chats : \A txt \in {TextWord, TextBlank} :
          (step[c] \in DOMAIN ChoiceList /\ Arrive(c, Message(txt))) => Reprompted(c)]_vars

\* the FSM data key of the answer of each single-choice step
ChoiceKey ==
    [ team |-> "team_size", leads_week |-> "leads_per_week", crm |-> "crm_usage",
      booking |-> "online_booking", docs |-> "docs_delivery",
      agg_interest |-> "agg_interest", monetization |-> "monetization" ]

\* C5 (as claimed): every single-choice answer a session holds is a label of
\* that step's list in the session's own language.
C5_ChoiceAnswersInSessionLanguage ==
    \A c \in Chats : \A s \in DOMAIN ChoiceList :
        ChoiceKey[s] \in DOMAIN data[c] =>
            data[c][ChoiceKey[s]] \in elements(opts(ChoiceList[s], get_lang(c)))

\* C6 (as claimed): at a free-text step a message without text, or whose text
\* is only whitespace, does not advance the step, stores nothing, does not
\* clear the session, and the prompt of the step is sent again.
C6_EmptyFreeTextIsInvalid ==
    [][\A c \in Chats : \A txt \in {None, TextBlank} :
          (step[c] \in FreeTextSteps /\ Arrive(c, Message(txt))) => Reprompted(c)]_vars

(* ------------------------------------------------------------------ *)
(* C7, C8                                                               *)
(* ------------------------------------------------------------------ *)

\* C7: in every state but the cleared one, "/cancel" is taken by the cancel
\* handler, ahead of the handler of the step; the state and the answers are
\* cleared, exactly one call is made, the "cancelled" answer, and neither the
\* sheet nor the operators are touched.
C7_CancelClearsAnyStep ==
    [][\A c \in Chats : \A f \in 0..1 :
          LET u == [Message(TextCancel) EXCEPT !.fail = f]
          IN  (step[c] # NoState /\ Arrive(c, u)) =>
                 /\ Handler(c, u) = "cancel"
                 /\ step'[c] = NoState
                 /\ data'[c] = EmptyData
                 /\ Len(out'[c]) = 1
                 /\ out'[c][1].to = c
                 /\ out'[c][1].op = "answer"
                 /\ out'[c][1].key = "cancelled"
                 /\ sheet' = sheet
                 /\ notified' = notified]_vars

\* "/cancel" arrived at a free-text step, where the step's handler would have
\* stored it as the answer, and cleared the session
C7_Witness ==
    /\ ran[1] = [handler |-> "cancel", from |-> "insight2"]
    /\ step[1] = NoState
    /\ data[1] = EmptyData
    /\ out[1] = <<Call(1, "answer", "cancelled", RU)>>

\* C8: in every state "/start" is taken by the start handler; the answers and
\* selections of the session are discarded and nothing is persisted; once the
\* language prompt is sent the session is at the language step (and in the
\* cleared state when sending it fails).
C8_StartDiscardsSession ==
    [][\A c \in Chats : \A f \in 0..1 :
          LET u == [Message(TextStart) EXCEPT !.fail = f]
          IN  Arrive(c, u) =>
                 /\ Handler(c, u) = "start"
                 /\ data'[c] = EmptyData
                 /\ step'[c] = IF f = 0 THEN "lang" ELSE NoState
                 /\ sheet' = sheet
                 /\ notified' = notified]_vars

\* "/start" arrived in the middle of a multi-select, four answers into the
\* survey, and the session is back at the language step without them
C8_Witness ==
    /\ ran[1] = [handler |-> "start", from |-> "leads_from"]
    /\ step[1] = "lang"
    /\ data[1] = EmptyData
    /\ out[1] = <<Call(1, "answer", "choose_lang", "ru+uz")>>

(* ------------------------------------------------------------------ *)
(* C9, C10                                                              *)
(* ------------------------------------------------------------------ *)

\* the indices selected under key k in FSM data d
Selected(d, k) == elements(get(d, k, << >>))

\* at its multi-select step a toggle event is taken by the toggle handler of
\* the step, whatever index it names
TogglesTakenInStep ==
    \A s \in DOMAIN MultiSelect : \A i \in ToggleIdx :
        HandlerAt(s, Callback(<<MultiSelect[s].prefix, "toggle", i>>)) = MultiSelect[s].toggle

\* C9: a toggle event at its multi-select step is taken by the step's toggle
\* handler, which flips the membership of exactly the index the event names
\* in that step's selection (the selection after is the symmetric difference
\* of the selection before and that one index, so a second toggle of the
\* index gives the first selection back); the stored list names no index
\* twice, and no other answer changes.
C9_ToggleFlipsOneIndex ==
    /\ []TogglesTakenInStep
    /\ [][\A c \in Chats : \A s \in DOMAIN MultiSelect : \A i \in ToggleIdx : \A f \in 0..2 :
             LET ms == MultiSelect[s]
                 u == [Callback(<<ms.prefix, "toggle", i>>) EXCEPT !.fail = f]
                 before == Selected(data[c], ms.key)
                 after == Selected(data'[c], ms.key)
             IN  (step[c] = s /\ Take(ms.toggle, c, u)) =>
                    /\ after = (before \ {i}) \cup ({i} \ before)
                    /\ Len(data'[c][ms.key]) = Cardinality(after)
                    /\ step'[c] = s
                    /\ \A k \in DOMAIN data[c] \ {ms.key} : data'[c][k] = data[c][k]
                    /\ DOMAIN data'[c] = DOMAIN data[c] \cup {ms.key}]_vars

\* index 2 of the payment methods was toggled on and off again: the selection
\* is stored and empty
C9_Witness ==
    /\ ran[1] = [handler |-> "pay_toggle", from |-> "pay"]
    /\ "pay_idx" \in DOMAIN data[1]
    /\ data[1]["pay_idx"] = << >>
    /\ view[1] = Keyboard("paym", {})

\* the step a finished multi-select leads to, and its column in a record
AfterDone == [leads_from |-> "leads_week", pay |-> "booking", agg_values |-> "monetization"]
MultiColumn == [leads_from |-> "lead_channels", pay |-> "payment_methods", agg_values |-> "aggregator_values"]

\* in no FSM state but that of its own step is a toggle event taken by a
\* handler
TogglesOnlyInStep ==
    \A st \in elements(Survey) \cup {NoState} : \A s \in DOMAIN MultiSelect : \A i \in ToggleIdx :
        st # s =>
            HandlerAt(st, Callback(<<MultiSelect[s].prefix, "toggle", i>>)) = "unhandled"

\* C10: a done event taken at its multi-select step whose replies are sent
\* advances to the next step whatever the selection is, and leaves it as it
\* is; outside its step (so after done) a toggle event is taken by no
\* handler; and a record appended for a session whose selection is empty or
\* absent has the empty text in that column.
C10_DoneAdvancesAnySelection ==
    /\ []TogglesOnlyInStep
    /\ [][\A c \in Chats : \A s \in DOMAIN MultiSelect :
             LET ms == MultiSelect[s]
             IN  /\ (step[c] = s /\ Arrive(c, Callback(ms.done))) =>
                       (step'[c] = AfterDone[s] /\ data'[c] = data[c])
                 /\ (/\ Len(sheet') = Len(sheet) + 1
                     /\ sheet'[Len(sheet')][2] = str(c)
                     /\ Selected(data[c], ms.key) = {}) =>
                       \A n \in 1..Len(COLUMNS) :
                          COLUMNS[n] = MultiColumn[s] => sheet'[Len(sheet')][n] = << >>]_vars

\* a finished survey whose record has no lead channel and no aggregator value
\* but a payment method
C10_Witness ==
    /\ ran[1] = [handler |-> "q_contact", from |-> "contact"]
    /\ step[1] = NoState
    /\ Len(sheet) = 1
    /\ sheet[1][9] = << >>
    /\ sheet[1][12] # << >>
    /\ sheet[1][16] = << >>

(* ------------------------------------------------------------------ *)
(* C11                                                                  *)
(* ------------------------------------------------------------------ *)

\* the labels of options at the positions (counted from 0) that are in the
\* set S, in the order of the list, joined by ", "
LabelsAt(options, S) ==
    LET at == SelectSeq([n \in 1..Len(options) |-> n - 1], LAMBDA i : i \in S)
    IN  join(<<",", " ">>, [k \in 1..Len(at) |-> options[at[k] + 1]])

\* every index selected in session data d is a position of its option list
InRange(d, lang) ==
    \A s \in DOMAIN MultiSelect :
        Selected(d, MultiSelect[s].key) \subseteq 0..(Len(opts(MultiSelect[s].list, lang)) - 1)

\* C11: for every selection a session holds whose indices are positions of
\* the list, what map_multi resolves it to is the labels of the session
\* language's list at the selected positions, in list order, each once,
\* joined by ", " (a function of the set of indices alone); and the record a
\* contact message appends carries exactly that in each multi-choice column.
C11_MultiColumnsAreLabelsInOrder ==
    /\ [](\A c \in Chats : \A s \in DOMAIN MultiSelect :
             LET ms == MultiSelect[s]
                 options == opts(ms.list, get_lang(c))
             IN  InRange(data[c], get_lang(c)) =>
                    map_multi(data[c], ms.key, options)
                       = LabelsAt(options, Selected(data[c], ms.key)))
    /\ [][\A c \in Chats : \A s \in DOMAIN MultiSelect :
             (Len(sheet') = Len(sheet) + 1 /\ sheet'[Len(sheet')][2] = str(c)) =>
                \A n \in 1..Len(COLUMNS) :
                   COLUMNS[n] = MultiColumn[s] =>
                      sheet'[Len(sheet')][n]
                         = LabelsAt(opts(MultiSelect[s].list, get_lang(c)),
                                    Selected(data[c], MultiSelect[s].key))]_vars

\* a record of a session that selected the lead channels 0 and 2 (toggled in
\* either order): the label of 0, then the label of 2
C11_Witness ==
    /\ Len(sheet) = 1
    /\ ran[1] = [handler |-> "q_contact", from |-> "contact"]
    /\ sheet[1][4] = lang_text(RU)
    /\ sheet[1][9] = opts("LEAD_CHANNELS", RU)[1] \o <<",", " ">> \o opts("LEAD_CHANNELS", RU)[3]

(* ------------------------------------------------------------------ *)
(* Contact inputs                                                       *)
(* ------------------------------------------------------------------ *)

\* the longest contact text that is tried character by character
MaxContactLen == 3

\* one character of each kind normalize_contact tells apart
ContactChars == {"+", "@", "1", "a", " "}

TextAgency == <<"@", "a", "g", "e", "n", "c", "y", "_", "u", "z">>
TextNoDigits == <<"n", "o", " ", "d", "i", "g", "i", "t", "s", " ", "h", "e", "r", "e">>

\* the contact texts tried: every text of up to MaxContactLen characters of
\* ContactChars, and the two longer ones
ContactInputs ==
    UNION {[1..n -> ContactChars] : n \in 0..MaxContactLen}
    \cup {TextAgency, TextNoDigits, TextPhone}

\* a session is walked to the contact step by default updates, where any
\* text of ContactInputs arrives and is appended
NextContact ==
    \E c \in live :
        \/ /\ step[c] # "contact"
           /\ \E u \in DefaultUpdates(c) : Arrive(c, u)
        \/ /\ step[c] = "contact"
           /\ \E txt \in ContactInputs : Arrive(c, Message(txt))

SpecContact == Init /\ [][NextContact]_vars

(* ------------------------------------------------------------------ *)
(* C12, C13                                                             *)
(* ------------------------------------------------------------------ *)

HasDigit(s) == \E i \in 1..Len(s) : s[i] \in Digits

\* "+" followed by digits only
PlusDigits(s) == startswith(s, <<"+">>) /\ isdigit(Tail(s))

\* the contact column of the record the step appended
ContactAppended == sheet'[Len(sheet')][21]

\* C12 (as claimed): the contact stored for a text is the trimmed text itself
\* when that is "+" followed by digits, or "@" followed by at least one
\* character, or has no digit in it; and a text that is not empty once
\* trimmed never gives the empty contact.
C12_ContactKeptUnchanged ==
    [][\A c \in Chats : \A txt \in ContactInputs :
          (step[c] = "contact" /\ Arrive(c, Message(txt))) =>
             LET s == strip(txt)
             IN  /\ (\/ PlusDigits(s)
                     \/ startswith(s, <<"@">>) /\ Len(s) > 1
                     \/ ~HasDigit(s)) => ContactAppended = s
                 /\ s # <<>> => ContactAppended # <<>>]_vars

\* C13 (as claimed): for a text that does not begin with "@", is not "+"
\* followed only by digits, and has a digit in it, the contact stored is the
\* digits of the text in their order, and nothing else.
C13_ContactDigitsOnly ==
    [][\A c \in Chats : \A txt \in ContactInputs :
          (step[c] = "contact" /\ Arrive(c, Message(txt))) =>
             LET s == strip(txt)
             IN  (~startswith(s, <<"@">>) /\ ~PlusDigits(s) /\ HasDigit(s)) =>
                    ContactAppended = SelectSeq(s, LAMBDA ch : ch \in Digits)]_vars

(* ------------------------------------------------------------------ *)
(* C14, C15, C16                                                        *)
(* ------------------------------------------------------------------ *)

\* C14 (as claimed): no record of a user who has a handle has the empty
\* contact: when the contact message gave no text, the contact is the handle.
C14_HandleWhenNoContactText ==
    \A n \in 1..Len(sheet) : sheet[n][3] # << >> => sheet[n][21] # << >>

\* C15: a contact message whose append succeeds, with the operators A
\* reachable and the others not, appends one record, attempts every operator
\* in turn (those of A are notified, the others fail), then sends the user
\* the thank-you as the only message to them, and clears the session.
C15_NotifyFailureSwallowed ==
    [][\A c \in Chats : \A A \in SUBSET AdminSet :
          (/\ step[c] = "contact"
           /\ ~row_raises(data[c], get_lang(c))
           /\ Arrive(c, [Message(TextPhone) EXCEPT !.admin_ok = A])) =>
             /\ Len(sheet') = Len(sheet) + 1
             /\ Len(out'[c]) = Len(ADMINS) + 1
             /\ \A i \in 1..Len(ADMINS) :
                   /\ out'[c][i].to = ADMINS[i]
                   /\ out'[c][i].op = "send_message"
                   /\ out'[c][i].ok = (ADMINS[i] \in A)
             /\ out'[c][Len(ADMINS) + 1] = Call(c, "answer", "thanks", get_lang(c))
             /\ notified' = notified \o SelectSeq([i \in 1..Len(ADMINS) |-> <<ADMINS[i], c>>],
                                                 LAMBDA p : p[1] \in A)
             /\ step'[c] = NoState
             /\ data'[c] = EmptyData]_vars

\* the first operator could not be reached: the second was notified, the
\* user was thanked, the record is there and the session is cleared
C15_Witness ==
    /\ step[1] = NoState
    /\ data[1] = EmptyData
    /\ Len(sheet) = 1
    /\ Len(out[1]) = 3
    /\ ~out[1][1].ok
    /\ out[1][2].ok
    /\ out[1][3] = Call(1, "answer", "thanks", UZ)
    /\ notified = << <<ADMINS[2], 1>> >>

\* C16 (as claimed): the label of the cancel button, sent at any step from
\* company to contact, clears the session with the one "cancelled" answer,
\* and nothing is appended.
C16_CancelButtonClears ==
    [][\A c \in Chats : \A l \in {RU, UZ} :
          (step[c] \notin {NoState, "lang"} /\ Arrive(c, Message(cancel_btn(l)))) =>
             /\ step'[c] = NoState
             /\ data'[c] = EmptyData
             /\ out'[c] = <<Call(c, "answer", "cancelled", get_lang(c))>>
             /\ sheet' = sheet]_vars

(* ------------------------------------------------------------------ *)
(* C17                                                                  *)
(* ------------------------------------------------------------------ *)

\* the last event of chat c was handled to its end, no call failing
Completed(c) == \A i \in 1..Len(out[c]) : out[c][i].ok

\* C17 (as claimed): while a multi-select step shows its checklist, after an
\* open or toggle event handled to its end, the options marked on the
\* checklist are the positions held in the stored selection of the step.
C17_ChecklistShowsStoredSelection ==
    \A c \in Chats : \A s \in DOMAIN MultiSelect :
        (/\ step[c] = s
         /\ ran[c].from = s
         /\ view[c].kb = MultiSelect[s].prefix
         /\ Completed(c)) =>
            view[c].marks =
                {i \in Selected(data[c], MultiSelect[s].key) :
                    i \in 0..(Len(opts(MultiSelect[s].list, get_lang(c))) - 1)}

(* ------------------------------------------------------------------ *)
(* Overlapping updates of one chat                                      *)
(* ------------------------------------------------------------------ *)

\* telegram_webhook awaits dp.feed_webhook_update for every request, each
\* request being a task of its own on the event loop, and Dispatcher() is built
\* without an events isolation: while a handler of a chat is suspended at an
\* await that waits for the network, the next update of that chat is handled.
\* q_contact up to its first such await: the contact is stored, the row is built
\* and ws.append_row (a blocking call) has returned
q_contact_appends(c, u) ==
    LET lang == get_lang(c)
        contact == normalize_contact(IF u.text = None THEN <<>> ELSE u.text)
        d == put(data[c], "contact", contact)
    IN  /\ Handler(c, u) = "q_contact"
        /\ ~row_raises(d, lang)
        /\ u.append_ok
        /\ data' = [data EXCEPT ![c] = d]
        /\ sheet' = Append(sheet, row(c, d, lang))
        /\ pending' = [pending EXCEPT ![c] = Append(@, [u |-> u, lang |-> lang])]
        /\ ran' = [ran EXCEPT ![c] = [handler |-> "q_contact", from |-> step[c]]]
        /\ odd' = IF pending[c] = << >> THEN odd ELSE odd + 1
        /\ UNCHANGED <<step, out, view, notified, live>>

\* the k-th suspended q_contact of chat c runs to its end: the operators are
\* told, the user is thanked, the session is cleared
q_contact_resumes(c, k) ==
    LET p == pending[c][k]
    IN  /\ notified' = notified \o delivered(c, p.u.admin_ok)
        /\ out' = [out EXCEPT ![c] =
               notify_admins(c, p.lang, p.u.admin_ok)
               \o Made(<<Call(c, "answer", "thanks", p.lang)>>, p.u.fail)]
        /\ data' = [data EXCEPT ![c] = IF Past(1, p.u.fail) THEN EmptyData ELSE @]
        /\ step' = [step EXCEPT ![c] = IF Past(1, p.u.fail) THEN NoState ELSE @]
        /\ pending' = [pending EXCEPT ![c] =
               SubSeq(@, 1, k - 1) \o SubSeq(@, k + 1, Len(@))]
        /\ UNCHANGED <<sheet, view, ran, odd, live>>

\* the contact messages of the overlapping runs
OverlapUpdates ==
    {[Message(txt) EXCEPT !.admin_ok = A] :
        txt \in {TextPhone, TextHandle}, A \in SUBSET AdminSet}

\* The survey is answered up to the contact step; there contact messages
\* arrive, also while an earlier q_contact of the chat is suspended (each such
\* message counts as an odd one), and the suspended handlers resume in any
\* order.
NextOverlap ==
    \E c \in live :
        \/ /\ step[c] # "contact"
           /\ pending[c] = << >>
           /\ \E u \in DefaultUpdates(c) : Arrive(c, u)
        \/ /\ step[c] = "contact"
           /\ pending[c] = << >> \/ odd < MaxOdd
           /\ \E u \in OverlapUpdates : q_contact_appends(c, u)
        \/ \E k \in 1..Len(pending[c]) : q_contact_resumes(c, k)

SpecOverlap == Init /\ [][NextOverlap]_vars

(* ------------------------------------------------------------------ *)
(* C18                                                                  *)
(* ------------------------------------------------------------------ *)

\* C18 (as claimed): a chat never has two handlers in flight, and the contact
\* messages of one session never append more than one record.
C18_OneInFlightOneRecord ==
    \A c \in Chats :
        /\ Len(pending[c]) <= 1
        /\ Cardinality({n \in 1..Len(sheet) : sheet[n][2] = str(c)}) <= 1

(* ------------------------------------------------------------------ *)
(* Two sessions                                                         *)
(* ------------------------------------------------------------------ *)

\* both chats send updates
InitTwo ==
    /\ step = [c \in Chats |-> NoState]
    /\ data = [c \in Chats |-> EmptyData]
    /\ sheet = << >>
    /\ out = [c \in Chats |-> Quiet]
    /\ view = [c \in Chats |-> NoKeyboard]
    /\ notified = << >>
    /\ ran = [c \in Chats |-> [handler |-> "", from |-> NoState]]
    /\ odd = 0
    /\ live = Chats
    /\ pending = [c \in Chats |-> << >>]

\* the events of a session: the default update of its step, /start and
\* /cancel at any time, a toggle while the checklist is shown
SessionUpdates(c) ==
    LET s == step[c]
    IN  DefaultUpdates(c)
        \cup {Message(TextStart), Message(TextCancel)}
        \cup (IF s \in DOMAIN MultiSelect /\ view[c].kb = MultiSelect[s].prefix
              THEN {Callback(<<MultiSelect[s].prefix, "toggle", 0>>)}
              ELSE {})

\* the updates of the two chats arrive in any interleaving; with two
\* sessions to explore, one odd update fewer than in a run of one chat
NextTwo ==
    \E c \in live : \E u \in SessionUpdates(c) :
        /\ u \in DefaultUpdates(c) \/ odd < MaxOdd - 1
        /\ Arrive(c, u)

SpecTwo == InitTwo /\ [][NextTwo]_vars

(* ------------------------------------------------------------------ *)
(* C19                                                                  *)
(* ------------------------------------------------------------------ *)

\* the session of chat o is what it was: its step, its data (the language,
\* the answers and the selections), its checklist and its last calls
Untouched(o) ==
    /\ step'[o] = step[o]
    /\ data'[o] = data[o]
    /\ view'[o] = view[o]
    /\ out'[o] = out[o]

\* C19: whatever the interleaving, handling an event of chat c leaves the
\* session of every other chat as it was, and a record it appends carries
\* the id of c, the language of c's session, the answers c's session holds
\* and the labels of c's selections.
C19_SessionsIndependent ==
    [][\A c \in Chats : \A u \in SessionUpdates(c) :
          (ran'[c].from = step[c] /\ Arrive(c, u)) =>
             /\ \A o \in Chats \ {c} : Untouched(o)
             /\ sheet' # sheet =>
                   /\ OneRecordFrom(c, normalize_contact(u.text))
                   /\ LET r == sheet'[Len(sheet')]
                      IN  /\ r[2] = str(c)
                          /\ r[4] = lang_text(get_lang(c))
                          /\ \A s \in DOMAIN MultiSelect : \A i \in 1..Len(COLUMNS) :
                                COLUMNS[i] = MultiColumn[s] =>
                                   r[i] = LabelsAt(opts(MultiSelect[s].list, get_lang(c)),
                                                   Selected(data[c], MultiSelect[s].key))]_vars

\* chat 2 finished its survey in Uzbek with nothing selected, while the
\* session of chat 1, in Russian, is in its first checklist with option 0
\* selected
C19_Witness ==
    /\ Len(sheet) = 1
    /\ sheet[1][2] = str(2)
    /\ sheet[1][4] = lang_text(UZ)
    /\ sheet[1][9] = << >>
    /\ step[2] = NoState
    /\ step[1] = "leads_from"
    /\ get_lang(1) = RU
    /\ Selected(data[1], "leads_from_idx") = {0}

(* ------------------------------------------------------------------ *)
(* C20                                                                  *)
(* ------------------------------------------------------------------ *)

\* C20: in every step after the language step the session holds a language
\* and no event changes it unless it clears the session; every call made
\* for an event (but /start, which opens a new session and asks for its
\* language in both) speaks that language, and a record appended carries it in its
\* lang field, with the selections resolved in the option lists of that
\* same language.
C20_LanguageFixedAfterPick ==
    [][\A c \in Chats :
          step[c] \notin {NoState, "lang"} =>
             /\ "lang" \in DOMAIN data[c]
             /\ \/ data'[c] = EmptyData
                \/ /\ "lang" \in DOMAIN data'[c]
                   /\ data'[c].lang = data[c].lang
             /\ (out'[c] # out[c] /\ ran'[c].handler # "start") =>
                   \A i \in 1..Len(out'[c]) : out'[c][i].lang = data[c].lang
             /\ sheet' # sheet =>
                   LET r == sheet'[Len(sheet')]
                   IN  /\ r[4] = lang_text(data[c].lang)
                       /\ \A s \in DOMAIN MultiSelect : \A i \in 1..Len(COLUMNS) :
                             COLUMNS[i] = MultiColumn[s] =>
                                r[i] = LabelsAt(opts(MultiSelect[s].list, data[c].lang),
                                                Selected(data[c], MultiSelect[s].key))]_vars

\* a session in Uzbek selected option 0 of the second checklist and finished:
\* its record says "uz" and names the option by its Uzbek label, which is
\* not the Russian one
C20_Witness ==
    /\ Len(sheet) = 1
    /\ step[1] = NoState
    /\ ran[1] = [handler |-> "q_contact", from |-> "contact"]
    /\ sheet[1][4] = lang_text(UZ)
    /\ sheet[1][12] = opts("PAYMENT_METHODS", UZ)[1]
    /\ sheet[1][12] # opts("PAYMENT_METHODS", RU)[1]

(* ------------------------------------------------------------------ *)
(* C21                                                                  *)
(* ------------------------------------------------------------------ *)

\* the calls of a handler that send chat c a new message (an edit of a
\* message and the answer to a callback query send none)
Messages(calls, c) ==
    SelectSeq(calls, LAMBDA k : k.to = c /\ k.op \in {"answer", "send_message"})

\* the message that goes with entering each FSM state
Announces ==
    [ none |-> {"cancelled", "thanks", "choose_lang"},
      lang |-> {"choose_lang"}, company |-> {"welcome"}, city |-> {"q_city"},
      years |-> {"q_years"}, team |-> {"q_team"},
      leads_from |-> {"q_leads_from_open"}, leads_week |-> {"q_leads_week"},
      crm |-> {"q_crm"}, pay |-> {"q_pay_open"}, booking |-> {"q_booking"},
      docs |-> {"q_docs"}, agg_interest |-> {"q_agg_int"},
      agg_values |-> {"q_vals_open"}, monetization |-> {"q_monet"},
      insight1 |-> {"q_ins1"}, insight2 |-> {"q_ins2"}, insight3 |-> {"q_ins3"},
      contact |-> {"q_contact"} ]

\* C21: the calls made for one event send the user at most one new message
\* (a send that raises counted as made), and an event that changes the step
\* of the session sends exactly one: the prompt of the step entered, or the
\* cancellation confirmation, the thank-you or the language question when the
\* session is cleared.
C21_OneMessagePerEvent ==
    [][\A c \in Chats :
          /\ Len(Messages(out'[c], c)) <= 1
          /\ step'[c] # step[c] =>
                /\ Len(Messages(out'[c], c)) = 1
                /\ Messages(out'[c], c)[1].key \in Announces[step'[c]]]_vars

\* the done of the first checklist made three calls, one of them the prompt
\* of the next step, and the session moved there
C21_Witness ==
    /\ ran[1] = [handler |-> "leads_done", from |-> "leads_from"]
    /\ step[1] = "leads_week"
    /\ Len(out[1]) = 3
    /\ Len(Messages(out[1], 1)) = 1
    /\ Messages(out[1], 1)[1].key = "q_leads_week"

(* ------------------------------------------------------------------ *)
(* C22                                                                  *)
(* ------------------------------------------------------------------ *)

\* the place of FSM state s in the order of Survey
Index(s) == CHOOSE i \in 1..Len(Survey) : Survey[i] = s

\* the data key the answer of a scalar step is stored under
StepKey ==
    [ company |-> "company_name", city |-> "city", years |-> "years",
      team |-> "team_size", leads_week |-> "leads_per_week", crm |-> "crm_usage",
      booking |-> "online_booking", docs |-> "docs_delivery",
      agg_interest |-> "agg_interest", monetization |-> "monetization",
      insight1 |-> "free_insight_1", insight2 |-> "free_insight_2",
      insight3 |-> "free_insight_3" ]

\* the session of chat c holds the answer of every scalar step before its own
EarlierAnswersStored(c) ==
    step[c] # NoState =>
       \A j \in 1..(Index(step[c]) - 1) :
          Survey[j] \in DOMAIN StepKey => StepKey[Survey[j]] \in DOMAIN data[c]

\* C22: every event leaves the step of the session where it is, or moves it
\* to the step that follows it in the order of Survey, or resets it: /start
\* to the language step (to none when its answer raises), cancel and the end
\* of q_contact to none; and a session at any step (the contact step
\* among them) holds the answer of every scalar step before it.
C22_StepsFormLinearChain ==
    /\ [](\A c \in Chats : EarlierAnswersStored(c))
    /\ [][\A c \in Chats :
            \/ step'[c] = step[c]
            \/ /\ step[c] \notin {NoState, "contact"}
               /\ step'[c] = Survey[Index(step[c]) + 1]
            \/ /\ step'[c] = "lang"
               /\ ran'[c].handler = "start"
            \/ /\ step'[c] = NoState
               /\ \/ ran'[c].handler \in {"start", "cancel", "q_contact"}
                  \/ step[c] \in FreeTextSteps]_vars

\* a session reached the contact step through the last free-text step and
\* holds the thirteen scalar answers
C22_Witness ==
    /\ step[1] = "contact"
    /\ ran[1] = [handler |-> "q_ins3", from |-> "insight3"]
    /\ \A s \in DOMAIN StepKey : StepKey[s] \in DOMAIN data[1]

(* ------------------------------------------------------------------ *)
(* C23                                                                  *)
(* ------------------------------------------------------------------ *)

\* C23 (as claimed): every index a session holds in a selection is a
\* position of the option list of its step, and for a session at the contact
\* step building the row does not raise.
C23_StoredIndicesAreListPositions ==
    \A c \in Chats :
        /\ InRange(data[c], get_lang(c))
        /\ step[c] = "contact" => ~row_raises(data[c], get_lang(c))

(* ------------------------------------------------------------------ *)
(* C24                                                                  *)
(* ------------------------------------------------------------------ *)

\* C24: the sheet changes only by one whole row appended to it, and only
\* in a step in which q_contact handled a message of a session at the contact
\* step; an operator is sent a summary, and the notifications grow, only in
\* a step that appended a row, by notifications of that session; so no event
\* in another state, and no contact message whose append fails or whose row
\* cannot be built, writes a row or tells an operator.
C24_AppendOnlyAtContact ==
    [][/\ sheet' # sheet =>
             /\ Len(sheet') = Len(sheet) + 1
             /\ SubSeq(sheet', 1, Len(sheet)) = sheet
             /\ Len(sheet'[Len(sheet')]) = Len(COLUMNS)
             /\ \E c \in Chats :
                   /\ step[c] = "contact"
                   /\ ran'[c] = [handler |-> "q_contact", from |-> "contact"]
                   /\ sheet'[Len(sheet')][2] = str(c)
       /\ notified' # notified =>
             /\ sheet' # sheet
             /\ Len(notified') > Len(notified)
             /\ SubSeq(notified', 1, Len(notified)) = notified
             /\ \A n \in (Len(notified) + 1)..Len(notified') :
                   /\ str(notified'[n][2]) = sheet'[Len(sheet')][2]
                   /\ notified'[n][1] \in AdminSet
       /\ \A c \in Chats :
             (out'[c] # out[c] /\ \E i \in 1..Len(out'[c]) : out'[c][i].op = "send_message")
                => sheet' # sheet]_vars

\* a contact message of a session at the contact step appended the one row
\* of the sheet, a whole one, and then both operators were told
C24_Witness ==
    /\ ran[1] = [handler |-> "q_contact", from |-> "contact"]
    /\ Len(sheet) = 1
    /\ Len(sheet[1]) = Len(COLUMNS)
    /\ sheet[1][2] = str(1)
    /\ notified = << <<ADMINS[1], 1>>, <<ADMINS[2], 1>> >>
    /\ Len(out[1]) = 3

====
